---- MODULE Spec2Model ----
(***************************************************************************)
(* Agri_Connect: the five serverless image-analysis handlers.              *)
(*   Analyze        src/api/analyze.js            OpenAI responses, filter *)
(*   AnalyzeClaude  src/api/analyze-claude.js     Claude / generic Gemini  *)
(*   Unfiltered     src/unnamed/part_000:12-113   OpenAI responses         *)
(*   ImageUrl       src/unnamed/part_000:116-153  OpenAI chat, imageUrl    *)
(*   GeminiNative   src/unnamed/part_000:167-265  Gemini native endpoint   *)
(* One behaviour is one request handled by one handler.  JavaScript        *)
(* strings are sequences of one-character strings; JSON values are tagged  *)
(* records.                                                                *)
(***************************************************************************)
EXTENDS Integers, Sequences, FiniteSets, TLC

(***************************************************************************)
(* Bounds                                                                  *)
(***************************************************************************)
\* largest byte value plus one is 256; uploads are at most MaxBytes long
MaxBytes == 4

(***************************************************************************)
(* JavaScript strings                                                      *)
(***************************************************************************)
UpperSeq == <<"A","B","C","D","E","F","G","H","I","J","K","L","M",
              "N","O","P","Q","R","S","T","U","V","W","X","Y","Z">>
LowerSeq == <<"a","b","c","d","e","f","g","h","i","j","k","l","m",
              "n","o","p","q","r","s","t","u","v","w","x","y","z">>

\* String.prototype.toLowerCase, one character
LowerChar(c) ==
  IF \E i \in 1..Len(UpperSeq) : UpperSeq[i] = c
  THEN LowerSeq[CHOOSE i \in 1..Len(UpperSeq) : UpperSeq[i] = c]
  ELSE c

\* String.prototype.toLowerCase
toLowerCase(s) == [i \in 1..Len(s) |-> LowerChar(s[i])]

\* String.prototype.startsWith
startsWith(s, p) == Len(s) >= Len(p) /\ SubSeq(s, 1, Len(p)) = p

\* index of the last occurrence of character c in s, 0 when there is none
LastIndexOf(s, c) ==
  IF \E i \in 1..Len(s) : s[i] = c
  THEN CHOOSE i \in 1..Len(s) : s[i] = c /\ \A j \in (i+1)..Len(s) : s[j] # c
  ELSE 0

\* path.basename: the portion after the last "/"
basename(p) == SubSeq(p, LastIndexOf(p, "/") + 1, Len(p))

\* path.extname: from the last "." of the last path portion to its end; ""
\* when there is no "." or the only "." is the portion's first character
extname(p) ==
  LET b == basename(p)
      d == LastIndexOf(b, ".")
  IN  IF d <= 1 \/ b = <<".", ".">> THEN <<>> ELSE SubSeq(b, d, Len(b))

\* Array.prototype.join over an array of strings
RECURSIVE join(_, _)
join(a, sep) ==
  IF Len(a) = 0 THEN <<>>
  ELSE IF Len(a) = 1 THEN a[1]
  ELSE a[1] \o sep \o join(Tail(a), sep)

\* Array.prototype.filter(Boolean) over an array of strings
RECURSIVE filterBoolean(_)
filterBoolean(a) ==
  IF Len(a) = 0 THEN <<>>
  ELSE IF Len(a[1]) > 0 THEN <<a[1]>> \o filterBoolean(Tail(a))
  ELSE filterBoolean(Tail(a))

NL == <<"\n">>
NLNL == <<"\n", "\n">>
SP == <<" ">>

(***************************************************************************)
(* Buffer.toString("base64") and its inverse                               *)
(***************************************************************************)
\* sextets are indices into the base64 alphabet; Pad stands for "="
Pad == 64

RECURSIVE toBase64(_)
toBase64(b) ==
  IF Len(b) = 0 THEN <<>>
  ELSE IF Len(b) = 1 THEN
    << b[1] \div 4, (b[1] % 4) * 16, Pad, Pad >>
  ELSE IF Len(b) = 2 THEN
    << b[1] \div 4, (b[1] % 4) * 16 + (b[2] \div 16), (b[2] % 16) * 4, Pad >>
  ELSE
    << b[1] \div 4, (b[1] % 4) * 16 + (b[2] \div 16),
       (b[2] % 16) * 4 + (b[3] \div 64), b[3] % 64 >>
    \o toBase64(SubSeq(b, 4, Len(b)))

RECURSIVE fromBase64(_)
fromBase64(s) ==
  IF Len(s) < 4 THEN <<>>
  ELSE
    LET b1 == s[1] * 4 + (s[2] \div 16)
        b2 == (s[2] % 16) * 16 + (s[3] \div 4)
        b3 == (s[3] % 4) * 64 + s[4]
    IN  IF s[3] = Pad THEN <<b1>>
        ELSE IF s[4] = Pad THEN <<b1, b2>>
        ELSE <<b1, b2, b3>> \o fromBase64(SubSeq(s, 5, Len(s)))

(***************************************************************************)
(* JSON-like values                                                        *)
(***************************************************************************)
Undef == [t |-> "undefined"]
Null == [t |-> "null"]
Str(s) == [t |-> "string", s |-> s]
Num(n) == [t |-> "number", n |-> n]
Arr(a) == [t |-> "array", a |-> a]
Obj(o) == [t |-> "object", o |-> o]
Bool(b) == [t |-> "boolean", b |-> b]
EmptyObj == Obj([f \in {} |-> Undef])

\* JavaScript truthiness
Truthy(v) ==
  CASE v.t = "undefined" -> FALSE
    [] v.t = "null" -> FALSE
    [] v.t = "string" -> Len(v.s) > 0
    [] v.t = "number" -> v.n # 0
    [] v.t = "boolean" -> v.b
    [] OTHER -> TRUE

Nullish(v) == v.t \in {"undefined", "null"}

\* v?.f : undefined on a nullish receiver, the property otherwise
OptGet(v, f) ==
  IF v.t = "object" /\ f \in DOMAIN v.o THEN v.o[f] ELSE Undef

\* v.f throws a TypeError on a nullish receiver
GetThrows(v) == Nullish(v)

\* String(v) as Array.prototype.join applies it to an element
ToStr(v) ==
  CASE v.t = "string" -> v.s
    [] v.t = "number" -> IF v.n = 0 THEN <<"0">> ELSE <<"5">>
    [] v.t = "object" -> <<"[object Object]">>
    [] v.t = "boolean" -> IF v.b THEN <<"true">> ELSE <<"false">>
    [] OTHER -> <<>>

\* a || b
Or(a, b) == IF Truthy(a) THEN a ELSE b
\* a && b
And(a, b) == IF Truthy(a) THEN b ELSE a

\* v?.[0] : first element of an array, first character of a string
OptIndex0(v) ==
  CASE v.t = "array" -> IF Len(v.a) > 0 THEN v.a[1] ELSE Undef
    [] v.t = "string" -> IF Len(v.s) > 0 THEN Str(<<v.s[1]>>) ELSE Undef
    [] OTHER -> Undef

\* Array.prototype.filter(Boolean) over an array of values
RECURSIVE filterTruthy(_)
filterTruthy(a) ==
  IF Len(a) = 0 THEN <<>>
  ELSE IF Truthy(a[1]) THEN <<a[1]>> \o filterTruthy(Tail(a))
  ELSE filterTruthy(Tail(a))

\* Array.prototype.join over an array of values: nullish elements become ""
joinValues(a, sep) ==
  join([i \in 1..Len(a) |-> IF Nullish(a[i]) THEN <<>> ELSE ToStr(a[i])], sep)

(***************************************************************************)
(* Response normalizers                                                    *)
(***************************************************************************)
OutputTextLit == <<"output_text">>

\* analyze.js:111 : c?.text || c?.type === "output_text" && c?.text || ""
OutputContentItem(c) ==
  Or(Or(OptGet(c, "text"),
        And(Bool(OptGet(c, "type").t = "string" /\ OptGet(c, "type").s = OutputTextLit),
            OptGet(c, "text"))),
     Str(<<>>))

\* analyze.js:106-116 : the callback mapped over response.output
OutputItem(out) ==
  IF ~Truthy(out) THEN <<>>
  ELSE IF out.t = "string" THEN out.s
  ELSE IF OptGet(out, "content").t = "array" THEN
    LET cs == OptGet(out, "content").a
    IN  joinValues(filterTruthy([i \in 1..Len(cs) |-> OutputContentItem(cs[i])]), SP)
  ELSE <<>>

AnalyzeFallback == <<"AI did not return any analysis for this image.">>

\* analyze.js:98-128 : the analysis value sent for an SDK response
AnalyzeExtract(response) ==
  LET output == OptGet(response, "output")
      analysisText ==
        IF GetThrows(response) THEN Str(<<>>)
        ELSE IF output.t = "string" THEN output
        ELSE IF output.t = "array" THEN
          Str(join(filterBoolean([i \in 1..Len(output.a) |-> OutputItem(output.a[i])]), NLNL))
        ELSE IF Truthy(OptGet(response, "output_text")) THEN OptGet(response, "output_text")
        ELSE Str(<<>>)
  IN  IF ~Truthy(analysisText) THEN Str(AnalyzeFallback) ELSE analysisText

\* analyze-claude.js:83 : typeof c === 'string' ? c : c?.text || ''
MessageContentItem(c) ==
  IF c.t = "string" THEN c ELSE Or(OptGet(c, "text"), Str(<<>>))

\* analyze-claude.js:86 : c?.text || ''
ContentItem(c) == Or(OptGet(c, "text"), Str(<<>>))

\* analyze-claude.js:79-89
extractAnalysisText(json) ==
  LET completion == OptGet(json, "completion")
      mcontent == OptGet(OptGet(json, "message"), "content")
      content == OptGet(json, "content")
  IN  IF ~Truthy(json) THEN <<>>
      ELSE IF Truthy(completion) /\ completion.t = "string" THEN completion.s
      ELSE IF Truthy(mcontent) /\ mcontent.t = "array" THEN
        joinValues(filterTruthy([i \in 1..Len(mcontent.a) |-> MessageContentItem(mcontent.a[i])]), NLNL)
      ELSE IF Truthy(content) /\ content.t = "array" THEN
        joinValues(filterTruthy([i \in 1..Len(content.a) |-> ContentItem(content.a[i])]), NLNL)
      ELSE <<>>

ClaudeFallback == <<"No analysis returned from model.">>

\* analyze-claude.js:112-113
ClaudeAnalysis(json) ==
  IF Len(extractAnalysisText(json)) = 0 THEN ClaudeFallback
  ELSE extractAnalysisText(json)

GeminiFallback == <<"Unable to extract analysis from Gemini response.">>

\* part_000:248 : data?.candidates?.[0]?.content?.parts
GeminiParts(data) ==
  OptGet(OptGet(OptIndex0(OptGet(data, "candidates")), "content"), "parts")

\* part_000:249-251 : parts.map((p) => p.text || "") throws when parts has
\* no map method or an element is null
GeminiMapThrows(parts) ==
  \/ parts.t # "array"
  \/ \E i \in 1..Len(parts.a) : Nullish(parts.a[i])

\* part_000:246-254 : [thrown, val]
GeminiExtract(data) ==
  LET parts == GeminiParts(data)
  IN  IF ~Truthy(parts) THEN [thrown |-> FALSE, val |-> GeminiFallback]
      ELSE IF GeminiMapThrows(parts) THEN [thrown |-> TRUE, val |-> <<>>]
      ELSE LET txt == joinValues([i \in 1..Len(parts.a) |->
                                    Or(OptGet(parts.a[i], "text"), Str(<<>>))], NL)
           IN  [thrown |-> FALSE,
                val |-> IF Len(txt) = 0 THEN GeminiFallback ELSE txt]

(***************************************************************************)
(* Inputs: requests, environment, provider outcomes                        *)
(***************************************************************************)
ImagePng == <<"i","m","a","g","e","/","p","n","g">>
ImageGif == <<"i","m","a","g","e","/","g","i","f">>
OctetStream == <<"a","p","p","l","i","c","a","t","i","o","n","/","o","c","t","e","t">>
ImageSlash == <<"i","m","a","g","e","/">>
ImageJpeg == <<"i","m","a","g","e","/","j","p","e","g">>

\* declared MIME types of the uploaded part
Mimes == {ImagePng, ImageGif, OctetStream}

\* original filenames of the uploaded part
Names == { <<"l",".","p","n","g">>, <<"l",".","P","N","G">>, <<"l",".","j","p","g">>,
           <<"l",".","j","p","e","g">>, <<"l",".","w","e","b","p">>,
           <<"l",".","g","i","f">>, <<"l",".","G","i","f">>, <<"l",".","e","x","e">>,
           <<"l",".","p","n","g",".","e","x","e">>, <<"l">>, <<".","p","n","g">> }

\* uploaded file contents, one buffer of every length up to MaxBytes
Buffers == { [i \in 1..n |-> (i * 85 + n) % 256] : n \in 1..MaxBytes }

NoUpload == [present |-> FALSE, name |-> <<>>, mime |-> <<>>, bytes |-> <<>>]
Uploads == {NoUpload} \cup
           { [present |-> TRUE, name |-> n, mime |-> m, bytes |-> b] :
               n \in Names, m \in Mimes, b \in Buffers }

Url == <<"h","t","t","p",":","/","/","x","/","l",".","p","n","g">>
\* JSON bodies of the imageUrl handler; Undef is a request without a body
Bodies == { Undef, EmptyObj, Obj([imageUrl |-> Str(<<>>)]), Obj([imageUrl |-> Num(5)]),
            Obj([imageUrl |-> Null]), Obj([imageUrl |-> Str(Url)]) }

Methods == {"POST", "GET"}

K == <<"k">>
\* a process.env entry: unset, set to the empty string, or set
EnvValues == {Undef, Str(<<>>), Str(K)}

HealthyCrop == <<"H","e","a","l","t","h","y"," ","c","r","o","p",".">>
A == <<"A">>
B == <<"B">>
TextA == Obj([text |-> Str(A)])
TextB == Obj([text |-> Str(B)])
Candidates(parts) == Obj([candidates |-> Arr(<<Obj([content |-> Obj([parts |-> parts])])>>)])

\* provider response bodies, well-formed and malformed
ResponseValues ==
  { Null, Num(5), Str(A), EmptyObj,
    Obj([error |-> Obj([message |-> Str(A)])]),
    \* OpenAI responses shapes
    Obj([output |-> Str(A)]),
    Obj([output |-> Str(<<>>), output_text |-> Str(B)]),
    Obj([output |-> Arr(<<Obj([content |-> Arr(<<Obj([type |-> Str(OutputTextLit), text |-> Str(A)]), TextB>>)]),
                          Str(B), Null, Obj([content |-> Arr(<<Null, EmptyObj>>)])>>)]),
    Obj([output |-> Arr(<<Obj([content |-> Arr(<<Obj([text |-> Num(5)])>>)])>>)]),
    Obj([output |-> Arr(<<>>), output_text |-> Str(A)]),
    Obj([output_text |-> Str(A)]),
    Obj([output_text |-> Num(5)]),
    Obj([output_text |-> Arr(<<>>)]),
    \* Claude shapes
    Obj([completion |-> Str(A)]),
    Obj([completion |-> Num(5)]),
    Obj([content |-> Arr(<<Obj([text |-> Str(HealthyCrop)])>>)]),
    Obj([content |-> Arr(<<TextA, Null, EmptyObj, TextB>>)]),
    Obj([content |-> Arr(<<Null, EmptyObj, Obj([text |-> Str(<<>>)])>>)]),
    Obj([content |-> Arr(<<>>)]),
    Obj([content |-> Str(A)]),
    Obj([message |-> Obj([content |-> Arr(<<Str(A), TextB, Null>>)])]),
    Obj([message |-> Obj([content |-> Arr(<<>>)]), content |-> Arr(<<TextA>>)]),
    Obj([message |-> Null, content |-> Arr(<<TextA>>)]),
    \* Gemini shapes
    Candidates(Arr(<<TextA>>)),
    Candidates(Arr(<<TextA, TextB>>)),
    Candidates(Arr(<<EmptyObj, EmptyObj>>)),
    Candidates(Arr(<<TextA, Obj([inlineData |-> EmptyObj])>>)),
    Candidates(Arr(<<Null>>)),
    Candidates(Arr(<<>>)),
    Candidates(Str(A)),
    Candidates(EmptyObj),
    Obj([candidates |-> Arr(<<>>)]),
    Obj([candidates |-> Arr(<<Null>>)]),
    Obj([candidates |-> Str(A)]) }

\* what comes back from one provider call: a JSON body, a body that is not
\* JSON, or a rejected call (network failure, SDK error)
Outcomes == { [k |-> "json", v |-> v] : v \in ResponseValues } \cup
            { [k |-> "nonjson", v |-> Undef], [k |-> "error", v |-> Undef] }

(***************************************************************************)
(* State                                                                   *)
(***************************************************************************)
VARIABLES
  pc,        \* position of the handler: idle, start, parsed, call, await, done
  handler,   \* which of the five handlers serves the request
  req,       \* the request: method, upload (multipart), body (JSON)
  env,       \* process.env
  libFilter, \* whether the installed formidable applies the filter option
  tmp,       \* the files in os.tmpdir(): set of [path, bytes]
  parsed,    \* form.parse has been invoked
  img,       \* files.image
  local,     \* base64 / mime locals of the handler
  sent,      \* the outbound provider calls, in order
  json,      \* what the provider call settled with, k = "none" before
  res        \* the response sent, status 0 while none

vars == <<pc, handler, req, env, libFilter, tmp, parsed, img, local, sent, json, res>>

Handlers == {"Analyze", "AnalyzeClaude", "Unfiltered", "ImageUrl", "GeminiNative"}
UploadHandlers == Handlers \ {"ImageUrl"}

NoImg == [present |-> FALSE, filepath |-> <<>>, mimetype |-> <<>>]
NoLocal == [base64 |-> <<>>, mime |-> <<>>, imageUrl |-> Undef]
NoOutcome == [k |-> "none", v |-> Undef]
NoRes == [status |-> 0, error |-> "", details |-> "", analysis |-> Undef, raw |-> FALSE]

\* os.tmpdir() + "/" + a generated id
TmpPrefix == <<"/","t","m","p","/","u">>

Init ==
  /\ pc = "idle"
  /\ handler = "none"
  /\ req = [method |-> "POST", upload |-> NoUpload, body |-> Undef]
  /\ env \in [ {"OPENAI_API_KEY", "CLAUDE_API_KEY", "GEMINI_API_KEY", "GEMINI_API_URL"}
               -> EnvValues ]
  /\ libFilter \in BOOLEAN
  /\ tmp = {}
  /\ parsed = FALSE
  /\ img = NoImg
  /\ local = NoLocal
  /\ sent = <<>>
  /\ json = NoOutcome
  /\ res = NoRes

\* the platform routes one request to one handler
Receive ==
  /\ pc = "idle"
  /\ \E h \in Handlers, m \in Methods :
       /\ handler' = h
       /\ \/ /\ h \in UploadHandlers
             /\ \E u \in Uploads : req' = [method |-> m, upload |-> u, body |-> Undef]
          \/ /\ h = "ImageUrl"
             /\ \E b \in Bodies : req' = [method |-> m, upload |-> NoUpload, body |-> b]
  /\ pc' = "start"
  /\ UNCHANGED <<env, libFilter, tmp, parsed, img, local, sent, res, json>>

\* res.status(s).json({error, details})
Error(s, e, d) == [status |-> s, error |-> e, details |-> d, analysis |-> Undef, raw |-> FALSE]
\* res.status(200).json({analysis, raw})
Ok(a) == [status |-> 200, error |-> "", details |-> "", analysis |-> a, raw |-> TRUE]

\* formidable stores an accepted part under uploadDir; keepExtensions appends
\* the original filename's extension to the generated name
StoredPath(u, keepExtensions) ==
  IF keepExtensions THEN TmpPrefix \o extname(u.name) ELSE TmpPrefix

AllowedExts == { <<".","j","p","g">>, <<".","j","p","e","g">>, <<".","p","n","g">>,
                 <<".","w","e","b","p">>, <<".","g","i","f">> }

\* fs.existsSync(path)
existsSync(path) == \E f \in tmp : f.path = path
\* fs.readFileSync(path)
readFileSync(path) == (CHOOSE f \in tmp : f.path = path).bytes
\* the temporary directory after fs.unlinkSync(path)
unlinkSync(path) == { f \in tmp : f.path # path }

\* one outbound provider call
Call(to, key) ==
  [to |-> to, mime |-> local.mime, data |-> local.base64, url |-> local.imageUrl, key |-> key]

Done(r) == res' = r /\ pc' = "done"

\* the OpenAI SDK resolves with a parsed object or rejects
SdkOutcomes == { o \in Outcomes : o.k # "nonjson" }

(***************************************************************************)
(* src/api/analyze.js                                                      *)
(***************************************************************************)
\* analyze.js:26-32
AnalyzeFilter(part) ==
  LET allowedMime == startsWith(part.mime, ImageSlash)
      ext == IF Len(part.name) > 0 THEN toLowerCase(extname(part.name)) ELSE <<>>
  IN  allowedMime /\ ext \in AllowedExts

\* analyze.js:14-44
Analyze_Parse ==
  /\ pc = "start" /\ handler = "Analyze"
  /\ IF req.method # "POST" THEN
       /\ Done(Error(405, "Method not allowed", ""))
       /\ UNCHANGED <<parsed, tmp, img>>
     ELSE
       /\ parsed' = TRUE
       /\ IF req.upload.present /\ (libFilter => AnalyzeFilter(req.upload)) THEN
            /\ tmp' = tmp \cup {[path |-> StoredPath(req.upload, TRUE), bytes |-> req.upload.bytes]}
            /\ img' = [present |-> TRUE, filepath |-> StoredPath(req.upload, TRUE),
                       mimetype |-> req.upload.mime]
            /\ pc' = "parsed"
            /\ UNCHANGED res
          ELSE
            /\ Done(Error(400, "Image not uploaded", ""))
            /\ UNCHANGED <<tmp, img>>
  /\ UNCHANGED <<handler, req, env, libFilter, local, sent, json>>

\* analyze.js:46-78
Analyze_Validate ==
  /\ pc = "parsed" /\ handler = "Analyze"
  /\ LET imgPath == img.filepath
         ext == toLowerCase(extname(imgPath))
     IN  IF Len(imgPath) = 0 \/ ~existsSync(imgPath) THEN
           /\ Done(Error(400, "Uploaded image file not found on server.", ""))
           /\ UNCHANGED <<tmp, local>>
         ELSE IF ext \notin AllowedExts THEN
           /\ tmp' = unlinkSync(imgPath)
           /\ Done(Error(400, "Uploaded file type not allowed.", ""))
           /\ UNCHANGED local
         ELSE
           /\ local' = [base64 |-> toBase64(readFileSync(imgPath)),
                        mime |-> IF Len(img.mimetype) > 0 THEN img.mimetype ELSE ImageJpeg,
                        imageUrl |-> Undef]
           /\ UNCHANGED tmp
           /\ IF ~Truthy(env["OPENAI_API_KEY"]) THEN
                Done(Error(500, "Server misconfiguration: OPENAI_API_KEY is not set. Please configure your environment variables.", ""))
              ELSE pc' = "call" /\ UNCHANGED res
  /\ UNCHANGED <<handler, req, env, libFilter, parsed, img, sent, json>>

\* analyze.js:80-96 : client.responses.create is issued
Analyze_Call ==
  /\ pc = "call" /\ handler = "Analyze"
  /\ sent' = Append(sent, Call("openai.responses", env["OPENAI_API_KEY"]))
  /\ pc' = "await"
  /\ UNCHANGED <<handler, req, env, libFilter, tmp, parsed, img, local, res, json>>

\* analyze.js:93-139 : the call settles, the response is normalized and sent
Analyze_Respond ==
  /\ pc = "await" /\ handler = "Analyze"
  /\ \E o \in SdkOutcomes :
       /\ json' = o
       /\ IF o.k = "error"
            THEN Done(Error(500, "Server Error while analyzing image.", "message"))
            ELSE Done(Ok(AnalyzeExtract(o.v)))
  /\ UNCHANGED <<handler, req, env, libFilter, tmp, parsed, img, local, sent>>

(***************************************************************************)
(* src/unnamed/part_000:12-113 : OpenAI responses, no filter               *)
(***************************************************************************)
\* part_000:12-29 : formidable({ multiples: false }) has no filter and does
\* not keep extensions
Unfiltered_Parse ==
  /\ pc = "start" /\ handler = "Unfiltered"
  /\ IF req.method # "POST" THEN
       /\ Done(Error(405, "Method not allowed", ""))
       /\ UNCHANGED <<parsed, tmp, img>>
     ELSE
       /\ parsed' = TRUE
       /\ IF req.upload.present THEN
            /\ tmp' = tmp \cup {[path |-> StoredPath(req.upload, FALSE), bytes |-> req.upload.bytes]}
            /\ img' = [present |-> TRUE, filepath |-> StoredPath(req.upload, FALSE),
                       mimetype |-> req.upload.mime]
            /\ pc' = "parsed"
            /\ UNCHANGED res
          ELSE
            /\ Done(Error(400, "Image not uploaded", ""))
            /\ UNCHANGED <<tmp, img>>
  /\ UNCHANGED <<handler, req, env, libFilter, local, sent, json>>

\* part_000:31-51
Unfiltered_Validate ==
  /\ pc = "parsed" /\ handler = "Unfiltered"
  /\ LET imgPath == img.filepath
     IN  IF Len(imgPath) = 0 \/ ~existsSync(imgPath) THEN
           /\ Done(Error(400, "Uploaded image file not found on server.", ""))
           /\ UNCHANGED local
         ELSE
           /\ local' = [base64 |-> toBase64(readFileSync(imgPath)),
                        mime |-> IF Len(img.mimetype) > 0 THEN img.mimetype ELSE ImageJpeg,
                        imageUrl |-> Undef]
           /\ IF ~Truthy(env["OPENAI_API_KEY"]) THEN
                Done(Error(500, "Server misconfiguration: OPENAI_API_KEY is not set. Please configure your environment variables.", ""))
              ELSE pc' = "call" /\ UNCHANGED res
  /\ UNCHANGED <<handler, req, env, libFilter, tmp, parsed, img, sent, json>>

\* part_000:53-69
Unfiltered_Call ==
  /\ pc = "call" /\ handler = "Unfiltered"
  /\ sent' = Append(sent, Call("openai.responses", env["OPENAI_API_KEY"]))
  /\ pc' = "await"
  /\ UNCHANGED <<handler, req, env, libFilter, tmp, parsed, img, local, res, json>>

\* part_000:66-112
Unfiltered_Respond ==
  /\ pc = "await" /\ handler = "Unfiltered"
  /\ \E o \in SdkOutcomes :
       /\ json' = o
       /\ IF o.k = "error"
            THEN Done(Error(500, "Server Error while analyzing image.", "message"))
            ELSE Done(Ok(AnalyzeExtract(o.v)))
  /\ UNCHANGED <<handler, req, env, libFilter, tmp, parsed, img, local, sent>>

(***************************************************************************)
(* src/api/analyze-claude.js                                               *)
(***************************************************************************)
\* analyze-claude.js:21-26
ParseFormFilter(part) ==
  LET ext == IF Len(part.name) > 0 THEN toLowerCase(extname(part.name)) ELSE <<>>
      allowedMime == startsWith(part.mime, ImageSlash)
  IN  allowedMime /\ ext \in AllowedExts

\* analyze-claude.js:38-53 : [thrown, message, tmp, buffer, mime]
readAndValidateImage(i, allowedExts) ==
  LET imgPath == i.filepath
      ext == toLowerCase(extname(imgPath))
  IN  IF Len(imgPath) = 0 \/ ~existsSync(imgPath) THEN
        [thrown |-> TRUE, message |-> "Uploaded image file not found on server.",
         tmp |-> tmp, buffer |-> <<>>, mime |-> <<>>]
      ELSE IF ext \notin allowedExts THEN
        [thrown |-> TRUE, message |-> "Uploaded file type not allowed.",
         tmp |-> unlinkSync(imgPath), buffer |-> <<>>, mime |-> <<>>]
      ELSE
        [thrown |-> FALSE, message |-> "",
         tmp |-> unlinkSync(imgPath), buffer |-> readFileSync(imgPath),
         mime |-> IF Len(i.mimetype) > 0 THEN i.mimetype ELSE ImageJpeg]

\* analyze-claude.js:105
hasClaude == Truthy(env["CLAUDE_API_KEY"])
\* the Gemini test with the GEMINI_API_URL conjunct dropped
hasGemini_KeyOnly == Truthy(env["GEMINI_API_KEY"])

\* analyze-claude.js:106
hasGemini == Truthy(And(env["GEMINI_API_KEY"], env["GEMINI_API_URL"]))

\* analyze-claude.js:91-98 with parseForm, 14-36
AnalyzeClaude_Parse ==
  /\ pc = "start" /\ handler = "AnalyzeClaude"
  /\ IF req.method # "POST" THEN
       /\ Done(Error(405, "Method not allowed", ""))
       /\ UNCHANGED <<parsed, tmp, img>>
     ELSE
       /\ parsed' = TRUE
       /\ IF req.upload.present /\ (libFilter => ParseFormFilter(req.upload)) THEN
            /\ tmp' = tmp \cup {[path |-> StoredPath(req.upload, TRUE), bytes |-> req.upload.bytes]}
            /\ img' = [present |-> TRUE, filepath |-> StoredPath(req.upload, TRUE),
                       mimetype |-> req.upload.mime]
            /\ pc' = "parsed"
            /\ UNCHANGED res
          ELSE
            /\ Done(Error(400, "Image not uploaded", ""))
            /\ UNCHANGED <<tmp, img>>
  /\ UNCHANGED <<handler, req, env, libFilter, local, sent, json>>

\* analyze-claude.js:100-109, a throw lands in the catch of 116-119
AnalyzeClaude_Validate ==
  /\ pc = "parsed" /\ handler = "AnalyzeClaude"
  /\ LET r == readAndValidateImage(img, AllowedExts)
     IN  /\ tmp' = r.tmp
         /\ IF r.thrown THEN
              /\ Done(Error(500, "Server error while analyzing image.", r.message))
              /\ UNCHANGED local
            ELSE
              /\ local' = [base64 |-> toBase64(r.buffer), mime |-> r.mime, imageUrl |-> Undef]
              /\ IF ~hasClaude /\ ~hasGemini THEN
                   Done(Error(500, "Server misconfiguration: no model API key provided. Set CLAUDE_API_KEY or (GEMINI_API_KEY + GEMINI_API_URL).", ""))
                 ELSE pc' = "call" /\ UNCHANGED res
  /\ UNCHANGED <<handler, req, env, libFilter, parsed, img, sent, json>>

\* analyze-claude.js:111 with callClaude, 55-74, and callGemini, 125-146
AnalyzeClaude_Call ==
  /\ pc = "call" /\ handler = "AnalyzeClaude"
  /\ IF hasGemini THEN
       IF ~Truthy(env["GEMINI_API_URL"]) \/ ~Truthy(env["GEMINI_API_KEY"]) THEN
         /\ Done(Error(500, "Server error while analyzing image.",
                       "GEMINI_API_URL and GEMINI_API_KEY must be set to call Gemini."))
         /\ UNCHANGED sent
       ELSE
         /\ sent' = Append(sent, Call("gemini.generic", env["GEMINI_API_KEY"]))
         /\ pc' = "await"
         /\ UNCHANGED res
     ELSE
       /\ sent' = Append(sent, Call("claude", env["CLAUDE_API_KEY"]))
       /\ pc' = "await"
       /\ UNCHANGED res
  /\ UNCHANGED <<handler, req, env, libFilter, tmp, parsed, img, local, json>>

\* analyze-claude.js:75-76 and 148-149 : resp.json().catch(() => ({}))
JsonOrEmpty(o) == IF o.k = "nonjson" THEN EmptyObj ELSE o.v

\* analyze-claude.js:70-76 / 139-149, then 112-119
AnalyzeClaude_Respond ==
  /\ pc = "await" /\ handler = "AnalyzeClaude"
  /\ \E o \in Outcomes :
       /\ json' = o
       /\ IF o.k = "error"
            THEN Done(Error(500, "Server error while analyzing image.", "message"))
            ELSE Done(Ok(Str(ClaudeAnalysis(JsonOrEmpty(o)))))
  /\ UNCHANGED <<handler, req, env, libFilter, tmp, parsed, img, local, sent>>

(***************************************************************************)
(* src/unnamed/part_000:116-153 : OpenAI chat completions, imageUrl        *)
(***************************************************************************)
\* part_000:116-122 : no method check, no credential check, no check of
\* imageUrl.  Destructuring a missing body throws.  new OpenAI({apiKey}) is
\* library code: with a missing or empty key it may throw or construct.
ImageUrl_Start ==
  /\ pc = "start" /\ handler = "ImageUrl"
  /\ IF Nullish(req.body) THEN
       /\ Done(Error(500, "TypeError: Cannot destructure property 'imageUrl'", ""))
       /\ UNCHANGED local
     ELSE
       /\ local' = [base64 |-> <<>>, mime |-> <<>>, imageUrl |-> OptGet(req.body, "imageUrl")]
       /\ \/ /\ ~Truthy(env["OPENAI_API_KEY"])
             /\ Done(Error(500, "Error: The OPENAI_API_KEY environment variable is missing or empty", ""))
          \/ /\ pc' = "call"
             /\ UNCHANGED res
  /\ UNCHANGED <<handler, req, env, libFilter, tmp, parsed, img, sent, json>>

\* part_000:124-147
ImageUrl_Call ==
  /\ pc = "call" /\ handler = "ImageUrl"
  /\ sent' = Append(sent, Call("openai.chat", env["OPENAI_API_KEY"]))
  /\ pc' = "await"
  /\ UNCHANGED <<handler, req, env, libFilter, tmp, parsed, img, local, res, json>>

\* part_000:149-152 : the provider response itself is the body
ImageUrl_Respond ==
  /\ pc = "await" /\ handler = "ImageUrl"
  /\ \E o \in SdkOutcomes :
       /\ json' = o
       /\ IF o.k = "error"
            THEN Done(Error(500, "Error: provider call failed", ""))
            ELSE Done([status |-> 200, error |-> "", details |-> "",
                       analysis |-> OptGet(o.v, "analysis"), raw |-> FALSE])
  /\ UNCHANGED <<handler, req, env, libFilter, tmp, parsed, img, local, sent>>

(***************************************************************************)
(* src/unnamed/part_000:167-265 : Gemini native                            *)
(***************************************************************************)
\* part_000:173
GeminiAllowedExts == { <<".","j","p","g">>, <<".","j","p","e","g">>, <<".","p","n","g">>,
                       <<".","w","e","b","p">> }

\* part_000:179-182
GeminiFilter(part) ==
  LET ext == toLowerCase(extname(part.name))
  IN  startsWith(part.mime, ImageSlash) /\ ext \in GeminiAllowedExts

\* part_000:167-194
GeminiNative_Parse ==
  /\ pc = "start" /\ handler = "GeminiNative"
  /\ IF req.method # "POST" THEN
       /\ Done(Error(405, "Method not allowed", ""))
       /\ UNCHANGED <<parsed, tmp, img>>
     ELSE
       /\ parsed' = TRUE
       /\ IF req.upload.present /\ (libFilter => GeminiFilter(req.upload)) THEN
            /\ tmp' = tmp \cup {[path |-> StoredPath(req.upload, TRUE), bytes |-> req.upload.bytes]}
            /\ img' = [present |-> TRUE, filepath |-> StoredPath(req.upload, TRUE),
                       mimetype |-> req.upload.mime]
            /\ pc' = "parsed"
            /\ UNCHANGED res
          ELSE
            /\ Done(Error(400, "No image uploaded", ""))
            /\ UNCHANGED <<tmp, img>>
  /\ UNCHANGED <<handler, req, env, libFilter, local, sent, json>>

\* part_000:196-217
GeminiNative_Validate ==
  /\ pc = "parsed" /\ handler = "GeminiNative"
  /\ LET imgPath == img.filepath
         ext == toLowerCase(extname(imgPath))
     IN  IF ~existsSync(imgPath) THEN
           /\ Done(Error(400, "Image missing on server", ""))
           /\ UNCHANGED <<tmp, local>>
         ELSE IF ext \notin GeminiAllowedExts THEN
           /\ tmp' = unlinkSync(imgPath)
           /\ Done(Error(400, "Invalid file type", ""))
           /\ UNCHANGED local
         ELSE
           /\ local' = [base64 |-> toBase64(readFileSync(imgPath)),
                        mime |-> IF Len(img.mimetype) > 0 THEN img.mimetype ELSE ImageJpeg,
                        imageUrl |-> Undef]
           /\ UNCHANGED tmp
           /\ IF ~Truthy(env["GEMINI_API_KEY"]) THEN
                Done(Error(500, "GEMINI_API_KEY not found in environment variables.", ""))
              ELSE pc' = "call" /\ UNCHANGED res
  /\ UNCHANGED <<handler, req, env, libFilter, parsed, img, sent, json>>

\* part_000:219-242
GeminiNative_Call ==
  /\ pc = "call" /\ handler = "GeminiNative"
  /\ sent' = Append(sent, Call("gemini.native", env["GEMINI_API_KEY"]))
  /\ pc' = "await"
  /\ UNCHANGED <<handler, req, env, libFilter, tmp, parsed, img, local, res, json>>

\* part_000:238-264 : gemResp.json() is not guarded, a body that is not JSON
\* throws into the catch
GeminiNative_Respond ==
  /\ pc = "await" /\ handler = "GeminiNative"
  /\ \E o \in Outcomes :
       /\ json' = o
       /\ IF o.k # "json" \/ GeminiExtract(o.v).thrown
            THEN Done(Error(500, "Server error during analysis", "message"))
            ELSE Done(Ok(Str(GeminiExtract(o.v).val)))
  /\ UNCHANGED <<handler, req, env, libFilter, tmp, parsed, img, local, sent>>

(***************************************************************************)
(* Specification                                                           *)
(***************************************************************************)
Next ==
  \/ Receive
  \/ Analyze_Parse \/ Analyze_Validate \/ Analyze_Call \/ Analyze_Respond
  \/ Unfiltered_Parse \/ Unfiltered_Validate \/ Unfiltered_Call \/ Unfiltered_Respond
  \/ AnalyzeClaude_Parse \/ AnalyzeClaude_Validate \/ AnalyzeClaude_Call
  \/ AnalyzeClaude_Respond
  \/ ImageUrl_Start \/ ImageUrl_Call \/ ImageUrl_Respond
  \/ GeminiNative_Parse \/ GeminiNative_Validate \/ GeminiNative_Call
  \/ GeminiNative_Respond

Spec == Init /\ [][Next]_vars

TypeOK ==
  /\ pc \in {"idle", "start", "parsed", "call", "await", "done"}
  /\ handler \in Handlers \cup {"none"}
  /\ Len(sent) <= 1
  /\ res.status \in {0, 200, 400, 405, 500}
  /\ (pc = "done") = (res.status # 0)

(***************************************************************************)
(* Vocabulary of the properties                                            *)
(***************************************************************************)
Responded == pc = "done"

MimeAllowed(u) == startsWith(u.mime, ImageSlash)
ExtAllowed(u) == toLowerCase(extname(u.name)) \in AllowedExts
ValidUpload(u) == u.present /\ MimeAllowed(u) /\ ExtAllowed(u)

UrlGiven(b) ==
  OptGet(b, "imageUrl").t = "string" /\ Len(OptGet(b, "imageUrl").s) > 0

ValidInput ==
  IF handler = "ImageUrl" THEN UrlGiven(req.body) ELSE ValidUpload(req.upload)

\* the credential the handler's provider needs is not configured
CredentialMissing ==
  CASE handler \in {"Analyze", "Unfiltered", "ImageUrl"} -> ~Truthy(env["OPENAI_API_KEY"])
    [] handler = "AnalyzeClaude" ->
         /\ ~Truthy(env["CLAUDE_API_KEY"])
         /\ ~(Truthy(env["GEMINI_API_KEY"]) /\ Truthy(env["GEMINI_API_URL"]))
    [] handler = "GeminiNative" -> ~Truthy(env["GEMINI_API_KEY"])
    [] OTHER -> FALSE

ConfigMessages ==
  { "Server misconfiguration: OPENAI_API_KEY is not set. Please configure your environment variables.",
    "Server misconfiguration: no model API key provided. Set CLAUDE_API_KEY or (GEMINI_API_KEY + GEMINI_API_URL).",
    "GEMINI_API_KEY not found in environment variables.",
    "Error: The OPENAI_API_KEY environment variable is missing or empty" }

Fallback ==
  CASE handler \in {"Analyze", "Unfiltered"} -> AnalyzeFallback
    [] handler = "AnalyzeClaude" -> ClaudeFallback
    [] OTHER -> GeminiFallback

\* a truthy scalar (a non-empty string, a non-zero number, true) occurs
\* somewhere in the value
RECURSIVE HasText(_)
HasText(v) ==
  CASE v.t = "string" -> Len(v.s) > 0
    [] v.t \in {"number", "boolean"} -> Truthy(v)
    [] v.t = "array" -> \E i \in 1..Len(v.a) : HasText(v.a[i])
    [] v.t = "object" -> \E f \in DOMAIN v.o : HasText(v.o[f])
    [] OTHER -> FALSE

\* the text fragment of one content block, "" when it carries none
BlockText(c) == IF Truthy(OptGet(c, "text")) THEN ToStr(OptGet(c, "text")) ELSE <<>>

\* the sub-items of one item joined by a single space
SubItemsText(item) ==
  IF item.t = "string" THEN item.s
  ELSE IF OptGet(item, "content").t = "array" THEN
    join(filterBoolean([i \in 1..Len(OptGet(item, "content").a) |->
                          BlockText(OptGet(item, "content").a[i])]), SP)
  ELSE <<>>

\* the provider's documented success field, Undef when the handler has none
SuccessField(v) ==
  CASE handler \in {"Analyze", "Unfiltered"} -> OptGet(v, "output")
    [] handler = "AnalyzeClaude" -> OptGet(v, "completion")
    [] OTHER -> Undef

\* the array of content blocks the handler's normalizer looks at
Blocks(v) ==
  CASE handler \in {"Analyze", "Unfiltered"} -> OptGet(v, "output")
    [] handler = "AnalyzeClaude" ->
         IF Truthy(OptGet(OptGet(v, "message"), "content"))
         THEN OptGet(OptGet(v, "message"), "content")
         ELSE OptGet(v, "content")
    [] OTHER -> GeminiParts(v)

\* the fragments of the top-level items, in encounter order, joined by one
\* blank line
Concatenation(v) ==
  LET b == Blocks(v)
  IN  IF b.t # "array" THEN <<>>
      ELSE join(filterBoolean([i \in 1..Len(b.a) |->
                  IF handler \in {"Analyze", "Unfiltered"} THEN SubItemsText(b.a[i])
                  ELSE IF b.a[i].t = "string" THEN b.a[i].s
                  ELSE BlockText(b.a[i])]), NLNL)

HealthyCropResponse == Obj([content |-> Arr(<<Obj([text |-> Str(HealthyCrop)])>>)])

(***************************************************************************)
(* Properties                                                              *)
(***************************************************************************)
\* C1: in every upload-mode handler, once the response has been sent no
\* temporary file of the request exists any more, whichever exit was taken.
C1_NoArtifactLeft ==
  (Responded /\ handler \in UploadHandlers) => tmp = {}

\* C2: a POST with valid input while the handler's credential is not
\* configured makes no provider call and ends with status 500 and a
\* configuration-specific message.
C2_MissingCredential ==
  (handler \in Handlers /\ req.method = "POST" /\ ValidInput /\ CredentialMissing) =>
    /\ sent = <<>>
    /\ Responded => (res.status = 500 /\ res.error \in ConfigMessages)

\* C3: in every handler a request whose method is not POST parses no upload,
\* calls no provider and is answered 405 {"error":"Method not allowed"}.
C3_MethodNotAllowed ==
  (handler \in Handlers /\ req.method # "POST") =>
    /\ ~parsed
    /\ sent = <<>>
    /\ Responded => (res.status = 405 /\ res.error = "Method not allowed")

\* C4: in every upload-mode handler an upload that fails validation (MIME not
\* image/*, extension outside the allow-list, or stored path failing the
\* extension re-check) calls no provider and is answered 400.
C4_InvalidUploadRejected ==
  (/\ handler \in UploadHandlers
   /\ req.method = "POST"
   /\ req.upload.present
   /\ \/ ~MimeAllowed(req.upload)
      \/ ~ExtAllowed(req.upload)
      \/ /\ handler # "Unfiltered"
         /\ img.present
         /\ toLowerCase(extname(img.filepath)) \notin AllowedExts) =>
    /\ sent = <<>>
    /\ Responded => res.status = 400

\* C5: in every upload-mode handler an upload with MIME image/* and an
\* extension of the allow-list is not answered 400, and what is handed to the
\* provider decodes to the uploaded bytes, of the same length.
C5_ValidUploadAccepted ==
  (handler \in UploadHandlers /\ req.method = "POST" /\ ValidUpload(req.upload)) =>
    /\ res.status # 400
    /\ \A i \in 1..Len(sent) :
         /\ fromBase64(sent[i].data) = req.upload.bytes
         /\ Len(fromBase64(sent[i].data)) = Len(req.upload.bytes)

\* C6: normalization is total in every variant: whatever value the provider
\* responds with, the request ends with status 200 and an analysis that is a
\* non-empty string.
C6_NormalizationTotal ==
  (Responded /\ json.k = "json") =>
    /\ res.status = 200
    /\ res.analysis.t = "string"
    /\ Len(res.analysis.s) > 0

\* C7: in every variant a provider response without any text fragment yields
\* status 200 with exactly the variant's fallback string.
C7_FallbackWhenNoText ==
  (Responded /\ json.k = "json" /\ ~HasText(json.v)) =>
    /\ res.status = 200
    /\ res.analysis = Str(Fallback)

\* C8: in the imageUrl handler a POST whose imageUrl is missing, empty or not
\* a string calls no provider and is answered 400.
C8_MissingUrlRejected ==
  (handler = "ImageUrl" /\ req.method = "POST" /\ ~UrlGiven(req.body)) =>
    /\ sent = <<>>
    /\ Responded => res.status = 400

\* C9: in every fetch-based adapter a response body that is not JSON is
\* treated as {}: the request ends with status 200 and the fallback string.
C9_NonJsonIsEmptyObject ==
  (Responded /\ handler \in {"AnalyzeClaude", "GeminiNative"} /\ json.k = "nonjson") =>
    /\ res.status = 200
    /\ res.analysis = Str(Fallback)

\* C10: in every normalizing variant the documented success field wins, else
\* the analysis is the concatenation of the blocks' text fragments in order,
\* one blank line between top-level items and one space between sub-items;
\* {"content":[{"text":"Healthy crop."}]} gives exactly "Healthy crop.".
C10_ConcatenationOrder ==
  (Responded /\ handler \in UploadHandlers /\ json.k = "json") =>
    /\ (SuccessField(json.v).t = "string" /\ Len(SuccessField(json.v).s) > 0) =>
         (res.status = 200 /\ res.analysis = SuccessField(json.v))
    /\ (SuccessField(json.v).t # "string" /\ Len(Concatenation(json.v)) > 0) =>
         (res.status = 200 /\ res.analysis = Str(Concatenation(json.v)))
    /\ (handler = "AnalyzeClaude" /\ json.v = HealthyCropResponse) =>
         (res.status = 200 /\ res.analysis = Str(HealthyCrop))

\* the analyze-claude request got past intake and the credential check
ClaudeAccepted ==
  /\ handler = "AnalyzeClaude"
  /\ req.method = "POST"
  /\ req.upload.present
  /\ ExtAllowed(req.upload)
  /\ libFilter => MimeAllowed(req.upload)
  /\ ~CredentialMissing

GeminiConfigured == Truthy(env["GEMINI_API_KEY"]) /\ Truthy(env["GEMINI_API_URL"])

\* C11: in the analyze-claude handler a request never makes more than one
\* provider call and an accepted request that has been answered made exactly
\* one: to Gemini when GEMINI_API_KEY and GEMINI_API_URL are both set, even
\* with CLAUDE_API_KEY set, otherwise to Claude, and then CLAUDE_API_KEY is
\* set; a request that is not accepted calls no provider.
C11_OneProviderPerRequest ==
  handler = "AnalyzeClaude" =>
    /\ Len(sent) <= 1
    /\ ~ClaudeAccepted => sent = <<>>
    /\ (ClaudeAccepted /\ pc \in {"await", "done"}) => Len(sent) = 1
    /\ \A i \in 1..Len(sent) :
         /\ sent[i].to \in {"gemini.generic", "claude"}
         /\ (sent[i].to = "gemini.generic") = GeminiConfigured
         /\ sent[i].to = "gemini.generic" => sent[i].key = env["GEMINI_API_KEY"]
         /\ sent[i].to = "claude" =>
              (Truthy(env["CLAUDE_API_KEY"]) /\ sent[i].key = env["CLAUDE_API_KEY"])

\* C11 witness: both credentials are configured, the request was answered
\* after exactly one call, and that call went to Gemini
C11_Witness_GeminiPreferred ==
  /\ handler = "AnalyzeClaude"
  /\ Responded
  /\ Truthy(env["CLAUDE_API_KEY"])
  /\ GeminiConfigured
  /\ Len(sent) = 1
  /\ sent[1].to = "gemini.generic"
====
